---- MODULE Spec2Model ----
(***************************************************************************)
(* Remote sensor for Twitter via Ethernet: the Arduino sketch              *)
(* remote_sensor_for_twitter_via_ethernet.ino as a state machine.          *)
(*                                                                         *)
(* One process (setup() once, then loop() forever) whose position is pc;   *)
(* the environment presses and releases the button, grants the DHCP lease, *)
(* answers the Twitter client and lets the millisecond timer run.          *)
(***************************************************************************)
EXTENDS Integers, Sequences, FiniteSets, TLC

VARIABLES
  pc,          \* position of the sketch: the source line about to run
  now,         \* the 32-bit millisecond timer that millis() reads
  bounceTime,  \* long bounceTime (line 47)
  led,         \* output level of the two led pins
  button,      \* level of the button pin (environment)
  sensor,      \* level of the analog sensor pin (environment)
  lease,       \* whether the DHCP server has granted a lease (environment)
  i,           \* loop counter of getSensorValue / blinkLed
  args,        \* arguments of the running getSensorValue / blinkLed call
  curSample,   \* static int curSample of getSensorValue
  curValue,    \* static long curValue of getSensorValue
  sensorValue, \* value returned by getSensorValue, argument of buildTwitterMsg
  twitterMsg,  \* static char twitterMsg[256] of buildTwitterMsg
  outcome,     \* what the delivery client answered in this iteration: <<kind, status>>
  sent,        \* value returned by sendTwitterMsg
  log,         \* history: the calls and pin writes of the current loop() iteration
  nReads,      \* history: analogRead calls of the current loop() iteration
  pressTime,   \* history: the millis() reading the gate compared when it last accepted
  nAccepted,   \* history: number of accepted triggers
  nPosts,      \* history: number of twitter.post calls
  nJumps,      \* history: number of idle time jumps taken
  sinceWrite,  \* history: true time since bounceTime was last written (saturating)
  sinceAccept, \* history: true time since the gate last accepted (saturating)
  pressCycles, \* history: cycles started while the button has stayed HIGH
  tap          \* history: a press begun within a cycle: "down", then "done"

vars == <<pc, now, bounceTime, led, button, sensor, lease, i, args, curSample, curValue,
          sensorValue, twitterMsg, outcome, sent, log, nReads, pressTime,
          nAccepted, nPosts, nJumps, sinceWrite, sinceAccept, pressCycles, tap>>

----------------------------------------------------------------------------
(* Program constants (lines 35-50, 162).                                   *)
buttonPin == 2
sensorPin == 0
ledGreenPin == 4
ledRedPin == 7
SAMPLES_LENGTH == 30
SAMPLE_DELAY == 20
BLINK_TIMES == 10
LED_DELAY == 30
BOUNCE_DURATION == 200
TWITTER_MSG_LENGTH == 256
HTTP_OK == 200

(* Bounds of the model.                                                    *)
MaxCycles == 3   \* accepted triggers explored
MaxJumps == 3    \* idle time jumps explored
MaxN == 3        \* samples asked of getSensorValue
MaxTimes == 3    \* alternations asked of blinkLed

LedPins == {ledGreenPin, ledRedPin}
Levels == {"LOW", "HIGH"}

(* What the environment may feed the sketch.                               *)
Samples == {7, 1023}          \* sensor levels, within the ADC range 0..1023
Statuses == {HTTP_OK, 503}    \* twitter.wait() results
NetTimes == {0, 150}          \* ms a twitter.post round trip may take
AdcLevels == {0, 7, 100, 1023}   \* levels a drifting sensor goes through

----------------------------------------------------------------------------
(* 32-bit arithmetic.  An unsigned long is a pair <<hi, lo>> of 16-bit     *)
(* halves, value hi * 2^16 + lo; a long is an integer in -2^31 .. 2^31-1.  *)
Half == 2^16

U32(n) == <<(n \div Half) % Half, n % Half>>

Zero32 == <<0, 0>>

Add32(a, b) ==
  LET lo == a[2] + b[2]
      hi == a[1] + b[1] + (lo \div Half)
  IN  <<hi % Half, lo % Half>>

Sub32(a, b) ==
  LET lo == a[2] - b[2]
      borrow == IF lo < 0 THEN 1 ELSE 0
      hi == a[1] - b[1] - borrow
  IN  <<(hi + 2 * Half) % Half, (lo + Half) % Half>>

Neg32(a) == Sub32(Zero32, a)

Gt32(a, b) == a[1] > b[1] \/ (a[1] = b[1] /\ a[2] > b[2])

(* long -> unsigned long: the usual arithmetic conversion, modulo 2^32.    *)
LongToULong(x) ==
  IF x >= 0 THEN <<x \div Half, x % Half>>
  ELSE LET y == (x + 2^30) + 2^30        \* x + 2^31, in 0 .. 2^31-1
       IN  <<(y \div Half) + (Half \div 2), y % Half>>

(* unsigned long -> long (avr-gcc: the same 32 bits, two's complement).    *)
ULongToLong(a) ==
  IF a[1] < Half \div 2 THEN a[1] * Half + a[2]
  ELSE (a[1] - Half) * Half + a[2]

----------------------------------------------------------------------------
(* The timer.  millis() reads it; delay(t) and the blocking library calls  *)
(* let it run.  The history clocks run with it and saturate.               *)
millis == now

ClockCap == BOUNCE_DURATION + 1

Saturate(c, d) == IF d[1] > 0 \/ c + d[2] > ClockCap THEN ClockCap ELSE c + d[2]

Elapse(d) ==
  /\ now' = Add32(now, d)
  /\ sinceWrite' = Saturate(sinceWrite, d)
  /\ sinceAccept' = Saturate(sinceAccept, d)

delay(time) == Elapse(U32(time))

NoTime == UNCHANGED <<now, sinceWrite, sinceAccept>>

(* Time that may pass between two polls of an idle sketch, when any does:  *)
(* one millisecond, the bounce duration, or half the range of the timer    *)
(* (two of these wrap it).                                                 *)
IdleJumps == {U32(1), U32(BOUNCE_DURATION), <<Half \div 2, 0>>}

----------------------------------------------------------------------------
(* The debounce comparison of line 120.  millis() is an unsigned long, so  *)
(* bounceTime and BOUNCE_DURATION are converted to unsigned long and the   *)
(* subtraction is modulo 2^32; abs is the Arduino macro.                   *)
(* Mutant: the 32 bits taken as a signed long, as labs would.               *)
abs_labs(x) == IF ULongToLong(x) > 0 THEN x ELSE Neg32(x)

abs(x) == IF Gt32(x, Zero32) THEN x ELSE Neg32(x)

(* Mutant: >= in place of >.                                               *)
GateAccepts_orEqual(m, bt) ==
  ~Gt32(LongToULong(BOUNCE_DURATION), abs(Sub32(m, LongToULong(bt))))

GateAccepts(m, bt) ==
  Gt32(abs(Sub32(m, LongToULong(bt))), LongToULong(BOUNCE_DURATION))

----------------------------------------------------------------------------
(* sprintf(twitterMsg, msgFormat, sensorValue), lines 160-170.  A text is  *)
(* a sequence of characters; "NUL" is the terminating null character.      *)
twitterMsgFormat ==
  <<"S", "e", "n", "s", "o", "r", " ", "V", "a", "l", "u", "e", ":", " ",
    "%", "l", "d", ".", "NUL", "NUL">>

Digit == <<"0", "1", "2", "3", "4", "5", "6", "7", "8", "9">>

(* The decimal digits of -n for n <= 0, most significant first; worked on  *)
(* n itself, so that -2^31 has its digits too.  n is 10 * (n \div 10) + r *)
(* with r in 0 .. 9.                                                       *)
RECURSIVE Magnitude(_)
Magnitude(n) ==
  IF n > -10 THEN <<Digit[1 - n]>>
  ELSE LET r == n % 10
       IN  IF r = 0 THEN Magnitude(n \div 10) \o <<Digit[1]>>
           ELSE Magnitude((n \div 10) + 1) \o <<Digit[11 - r]>>

(* Mutant: the sign is not printed.                                        *)
Decimal_noSign(n) == Magnitude(IF n < 0 THEN n ELSE -n)

(* %ld: a '-' for a negative value, then the digits.                       *)
Decimal(n) == IF n < 0 THEN <<"-">> \o Magnitude(n) ELSE Magnitude(-n)

RECURSIVE Format(_, _, _)
Format(fmt, k, value) ==
  IF k > Len(fmt) \/ fmt[k] = "NUL" THEN <<"NUL">>
  ELSE IF fmt[k] = "%" /\ k + 2 <= Len(fmt) /\ fmt[k + 1] = "l" /\ fmt[k + 2] = "d"
       THEN Decimal(value) \o Format(fmt, k + 3, value)
  ELSE <<fmt[k]>> \o Format(fmt, k + 1, value)

(* The buffer after sprintf: the bytes written, then what was there.       *)
sprintf(buf, fmt, value) ==
  LET out == Format(fmt, 1, value)
  IN  IF Len(out) >= Len(buf) THEN out
      ELSE out \o SubSeq(buf, Len(out) + 1, Len(buf))

(* The text a reader of the C string at buf + k - 1 gets: the characters   *)
(* up to the first null character.                                         *)
RECURSIVE CString(_, _)

(* Mutant: the reader goes on past the null characters.                    *)
CString_pastNull(buf, k) ==
  IF k > Len(buf) THEN <<>>
  ELSE IF buf[k] = "NUL" THEN CString(buf, k + 1)
  ELSE <<buf[k]>> \o CString(buf, k + 1)

CString(buf, k) ==
  IF k > Len(buf) \/ buf[k] = "NUL" THEN <<>>
  ELSE <<buf[k]>> \o CString(buf, k + 1)

----------------------------------------------------------------------------
digitalWrite(pin, level) == led' = [led EXCEPT ![pin] = level]

analogRead(pin) == sensor

(* Mutant: a latch on the pin remembers a press that is over.              *)
digitalRead_latched(pin) == IF tap = "done" THEN "HIGH" ELSE button

digitalRead(pin) == button

Wrote(pin, level) == <<"digitalWrite", pin, level>>
Called(name) == <<"call", name>>

NoOutcome == <<"none", 0>>
NoArgs == <<>>

Init ==
  /\ pc = "setup"
  /\ now = Zero32
  /\ bounceTime = 0
  /\ led = [p \in LedPins |-> "LOW"]
  /\ button \in Levels
  /\ sensor \in Samples
  /\ lease = FALSE
  /\ i = 0
  /\ args = NoArgs
  /\ curSample = 0
  /\ curValue = 0
  /\ sensorValue = 0
  /\ twitterMsg = <<>>
  /\ outcome = NoOutcome
  /\ sent = FALSE
  /\ log = <<>>
  /\ nReads = 0
  /\ pressTime = Zero32
  /\ nAccepted = 0
  /\ nPosts = 0
  /\ nJumps = 0
  /\ sinceWrite = 0
  /\ sinceAccept = 0
  /\ pressCycles = 0
  /\ tap = "none"

(* Groups of variables an action leaves alone.                             *)
statics == <<curSample, curValue, twitterMsg>>
locals == <<i, args, sensorValue, outcome, sent>>
counts == <<nAccepted, nPosts, pressTime>>
env == <<button, sensor, lease, pressCycles>>

----------------------------------------------------------------------------
(* The environment.                                                        *)
Press ==
  /\ button = "LOW"
  /\ button' = "HIGH"
  /\ UNCHANGED <<pc, now, bounceTime, led, sensor, lease, statics, locals, counts,
                 log, nReads, nJumps, sinceWrite, sinceAccept, pressCycles>>
  /\ tap' = "none"

Release ==
  /\ button = "HIGH"
  /\ button' = "LOW"
  /\ pressCycles' = 0
  /\ UNCHANGED <<pc, now, bounceTime, led, sensor, lease, statics, locals, counts,
                 log, nReads, nJumps, sinceWrite, sinceAccept>>
  /\ tap' = "none"

GrantLease ==
  /\ pc = "L84"
  /\ ~lease
  /\ lease' = TRUE
  /\ UNCHANGED <<pc, now, bounceTime, led, button, sensor, statics, locals, counts,
                 log, nReads, nJumps, sinceWrite, sinceAccept, pressCycles>>
  /\ UNCHANGED tap

(* A press that begins while a cycle is in progress, and its end within    *)
(* the same cycle.                                                         *)
Busy == {"L123", "L194", "L197", "L166", "L222", "L224", "L126", "L176", "L182", "L138"}

BlockedPress ==
  /\ pc \in Busy
  /\ button = "LOW"
  /\ button' = "HIGH"
  /\ tap' = "down"
  /\ UNCHANGED <<pc, now, bounceTime, led, sensor, lease, statics, locals, counts,
                 log, nReads, nJumps, sinceWrite, sinceAccept, pressCycles>>

BlockedRelease ==
  /\ pc \in Busy
  /\ button = "HIGH"
  /\ tap = "down"
  /\ button' = "LOW"
  /\ tap' = "done"
  /\ pressCycles' = 0
  /\ UNCHANGED <<pc, now, bounceTime, led, sensor, lease, statics, locals, counts,
                 log, nReads, nJumps, sinceWrite, sinceAccept>>

(* The level on the sensor pin moves, between two averaging passes.        *)
SensorChange ==
  /\ pc # "L197"
  /\ sensor' \in Samples \ {sensor}
  /\ UNCHANGED <<pc, now, bounceTime, led, button, lease, statics, locals, counts,
                 log, nReads, nJumps, sinceWrite, sinceAccept, pressCycles>>
  /\ UNCHANGED tap

----------------------------------------------------------------------------
(* setup(), lines 62-103.                                                  *)
setup ==
  /\ pc = "setup"
  /\ pc' = "L84"
  /\ UNCHANGED <<now, bounceTime, led, env, statics, locals, counts, log, nReads,
                 nJumps, sinceWrite, sinceAccept>>
  /\ UNCHANGED tap

(* EthernetDHCP.begin(mac) blocks: time passes, no lease yet.              *)
dhcpBlocked ==
  /\ pc = "L84"
  /\ ~lease
  /\ nJumps < MaxJumps
  /\ nJumps' = nJumps + 1
  /\ \E d \in IdleJumps : Elapse(d)
  /\ UNCHANGED <<pc, bounceTime, led, env, statics, locals, counts, log, nReads>>
  /\ UNCHANGED tap

(* Mutant: EthernetDHCP.begin(mac) gives up waiting.                       *)
dhcpBegin_givesUp ==
  /\ pc = "L84"
  /\ pc' = "L111"
  /\ UNCHANGED <<now, bounceTime, led, env, statics, locals, counts, log, nReads,
                 nJumps, sinceWrite, sinceAccept>>
  /\ UNCHANGED tap

(* EthernetDHCP.begin(mac) returns once the lease is there; setup ends.    *)
dhcpBegin ==
  /\ pc = "L84"
  /\ lease
  /\ pc' = "L111"
  /\ UNCHANGED <<now, bounceTime, led, env, statics, locals, counts, log, nReads,
                 nJumps, sinceWrite, sinceAccept>>
  /\ UNCHANGED tap

----------------------------------------------------------------------------
(* loop(), lines 106-141.                                                  *)

(* Mutant: the call of line 111 left out.                                  *)
loopMaintain_skipped ==
  /\ pc = "L111"
  /\ pc' = "L114"
  /\ log' = <<>>
  /\ nReads' = 0
  /\ \/ NoTime /\ UNCHANGED nJumps
     \/ /\ nJumps < MaxJumps
        /\ nJumps' = nJumps + 1
        /\ \E d \in IdleJumps : Elapse(d)
  /\ UNCHANGED <<bounceTime, led, env, statics, locals, counts>>
  /\ tap' = IF log # <<>> /\ log[Len(log)][1] = "bounceTime" THEN tap ELSE "none"

(* Line 111: EthernetDHCP.maintain().  A new iteration starts; since the   *)
(* last poll no time, or one of IdleJumps, has passed.                     *)
loopMaintain ==
  /\ pc = "L111"
  /\ pc' = "L114"
  /\ log' = <<Called("maintain")>>
  /\ nReads' = 0
  /\ \/ NoTime /\ UNCHANGED nJumps
     \/ /\ nJumps < MaxJumps
        /\ nJumps' = nJumps + 1
        /\ \E d \in IdleJumps : Elapse(d)
  /\ UNCHANGED <<bounceTime, led, env, statics, locals, counts>>
  /\ tap' = IF log # <<>> /\ log[Len(log)][1] = "bounceTime" THEN tap ELSE "none"

(* Line 114: digitalWrite(ledRedPin, LOW).                                 *)
loopDarkRed ==
  /\ pc = "L114"
  /\ pc' = "L115"
  /\ digitalWrite(ledRedPin, "LOW")
  /\ log' = Append(log, Wrote(ledRedPin, "LOW"))
  /\ NoTime
  /\ UNCHANGED <<bounceTime, env, statics, locals, counts, nReads, nJumps>>
  /\ UNCHANGED tap

(* Line 115: digitalWrite(ledGreenPin, LOW).                               *)
loopDarkGreen ==
  /\ pc = "L115"
  /\ pc' = "L118"
  /\ digitalWrite(ledGreenPin, "LOW")
  /\ log' = Append(log, Wrote(ledGreenPin, "LOW"))
  /\ NoTime
  /\ UNCHANGED <<bounceTime, env, statics, locals, counts, nReads, nJumps>>
  /\ UNCHANGED tap

(* Line 118: if (digitalRead(buttonPin) == HIGH).                          *)
loopReadButton ==
  /\ pc = "L118"
  /\ pc' = IF digitalRead(buttonPin) = "HIGH" THEN "L120" ELSE "L111"
  /\ log' = Append(log, <<"digitalRead", buttonPin, digitalRead(buttonPin)>>)
  /\ NoTime
  /\ UNCHANGED <<bounceTime, led, env, statics, locals, counts, nReads, nJumps>>
  /\ tap' = IF tap = "down" THEN "none" ELSE tap

(* Line 120: if (abs(millis() - bounceTime) > BOUNCE_DURATION), taken.     *)
loopGateAccept ==
  /\ pc = "L120"
  /\ GateAccepts(millis, bounceTime)
  /\ nAccepted < MaxCycles
  /\ pc' = "L123"
  /\ log' = Append(log, <<"gate", TRUE>>)
  /\ pressTime' = millis
  /\ nAccepted' = nAccepted + 1
  /\ pressCycles' = IF button = "HIGH" THEN pressCycles + 1 ELSE 0
  /\ sinceAccept' = 0
  /\ UNCHANGED <<now, sinceWrite, bounceTime, led, button, sensor, lease,
                 statics, locals, nPosts, nReads, nJumps>>
  /\ UNCHANGED tap

(* Mutant: line 138 moved out of the if of line 120.                       *)
loopGateReject_setsBounceTime ==
  /\ pc = "L120"
  /\ ~GateAccepts(millis, bounceTime)
  /\ pc' = "L111"
  /\ log' = Append(log, <<"gate", FALSE>>)
  /\ bounceTime' = ULongToLong(millis)
  /\ sinceWrite' = 0
  /\ UNCHANGED <<now, sinceAccept, led, env, statics, locals, counts, nReads, nJumps>>
  /\ UNCHANGED tap

(* Line 120, not taken: the iteration ends.                                *)
loopGateReject ==
  /\ pc = "L120"
  /\ ~GateAccepts(millis, bounceTime)
  /\ pc' = "L111"
  /\ log' = Append(log, <<"gate", FALSE>>)
  /\ NoTime
  /\ UNCHANGED <<bounceTime, led, env, statics, locals, counts, nReads, nJumps>>
  /\ UNCHANGED tap

(* Line 123: digitalWrite(ledRedPin, HIGH); then the innermost argument of *)
(* line 126-128 is evaluated: getSensorValue is called.                    *)
RedOnAccept_low == "LOW"   \* mutant: the led is not lit

RedOnAccept == "HIGH"

loopLightRed ==
  /\ pc = "L123"
  /\ pc' = "L194"
  /\ digitalWrite(ledRedPin, RedOnAccept)
  /\ log' = Append(log, Wrote(ledRedPin, RedOnAccept))
  /\ args' = <<sensorPin, SAMPLES_LENGTH, SAMPLE_DELAY>>
  /\ NoTime
  /\ UNCHANGED <<bounceTime, env, statics, i, sensorValue, outcome, sent, counts,
                 nReads, nJumps>>
  /\ UNCHANGED tap

----------------------------------------------------------------------------
(* getSensorValue(pin, N, time), lines 188-210.                            *)

(* Mutant: line 194 left out, the sum goes on from the earlier call.       *)
getSensorValueEnter_keepsSum ==
  /\ pc = "L194"
  /\ pc' = "L197"
  /\ i' = 0
  /\ log' = Append(log, Called("getSensorValue"))
  /\ NoTime
  /\ UNCHANGED <<bounceTime, led, env, statics, args, sensorValue,
                 outcome, sent, counts, nReads, nJumps>>
  /\ UNCHANGED tap

(* Line 194: curValue = 0; line 197: int i = 0.                            *)
getSensorValueEnter ==
  /\ pc = "L194"
  /\ pc' = "L197"
  /\ curValue' = 0
  /\ i' = 0
  /\ log' = Append(log, Called("getSensorValue"))
  /\ NoTime
  /\ UNCHANGED <<bounceTime, led, env, curSample, twitterMsg, args, sensorValue,
                 outcome, sent, counts, nReads, nJumps>>
  /\ UNCHANGED tap

(* Lines 197-205: one round of the loop: read, add, delay.                 *)
getSensorValueSample ==
  /\ pc = "L197"
  /\ i < args[2]
  /\ curSample' = analogRead(args[1])
  /\ curValue' = curValue + curSample'
  /\ nReads' = nReads + 1
  /\ log' = Append(log, <<"analogRead", args[1], curSample'>>)
  /\ delay(args[3])
  /\ i' = i + 1
  /\ UNCHANGED <<pc, bounceTime, led, env, twitterMsg, args, sensorValue, outcome,
                 sent, counts, nJumps>>
  /\ UNCHANGED tap

(* Line 209: return (curValue / N); the value becomes the argument of      *)
(* buildTwitterMsg.                                                        *)
getSensorValueReturn ==
  /\ pc = "L197"
  /\ i >= args[2]
  /\ pc' = "L166"
  /\ sensorValue' = curValue \div args[2]
  /\ i' = 0
  /\ args' = NoArgs
  /\ NoTime
  /\ UNCHANGED <<bounceTime, led, env, statics, outcome, sent, counts, log, nReads,
                 nJumps>>
  /\ UNCHANGED tap

----------------------------------------------------------------------------
(* buildTwitterMsg(sensorValue, msgFormat), lines 160-170.                 *)
buildTwitterMsg ==
  /\ pc = "L166"
  /\ pc' = "L222"
  /\ twitterMsg' = sprintf(twitterMsg, twitterMsgFormat, sensorValue)
  /\ sensorValue' = 0
  /\ log' = Append(log, Called("buildTwitterMsg"))
  /\ NoTime
  /\ UNCHANGED <<bounceTime, led, env, curSample, curValue, i, args, outcome, sent,
                 counts, nReads, nJumps>>
  /\ UNCHANGED tap

----------------------------------------------------------------------------
(* sendTwitterMsg(twitterMsg), lines 213-255.                              *)

(* Line 222: if (twitter.post(twitterMsg)): the connection is made or not. *)
(* Made: line 224 is next.  Not made: lines 247-254 return false.          *)
AfterPost_retry(connected) == IF connected THEN "L224" ELSE "L222"   \* mutant

AfterPost(connected) == IF connected THEN "L224" ELSE "L126"

sendTwitterMsgPost ==
  /\ pc = "L222"
  /\ \E connected \in BOOLEAN :
       /\ pc' = AfterPost(connected)
       /\ outcome' = IF connected THEN <<"Connected", 0>> ELSE <<"ConnectionFailed", 0>>
       /\ sent' = FALSE
  /\ nPosts' = nPosts + 1
  /\ log' = Append(log, <<"post", CString(twitterMsg, 1)>>)
  /\ \E d \in NetTimes : delay(d)
  /\ UNCHANGED <<bounceTime, led, env, statics, i, args, sensorValue, nAccepted,
                 pressTime, nReads, nJumps>>
  /\ UNCHANGED tap

(* Lines 224-245: int status = twitter.wait(); return status == 200.       *)
StatusOk_anyAnswer(status) == status # 0   \* mutant: if (status)

StatusOk(status) == status = HTTP_OK

sendTwitterMsgWait ==
  /\ pc = "L224"
  /\ pc' = "L126"
  /\ \E status \in Statuses :
       /\ outcome' = IF status = HTTP_OK THEN <<"Sent", status>> ELSE <<"Rejected", status>>
       /\ sent' = StatusOk(status)
  /\ log' = Append(log, Called("wait"))
  /\ NoTime
  /\ UNCHANGED <<bounceTime, led, env, statics, i, args, sensorValue, counts, nReads,
                 nJumps>>
  /\ UNCHANGED tap

----------------------------------------------------------------------------
(* loop(), the branch of line 126 on the value sendTwitterMsg returned.    *)

(* Line 130: digitalWrite(ledRedPin, LOW); line 131 calls blinkLed.        *)
RedOnSent_high == "HIGH"   \* mutant: the red led is left lit

RedOnSent == "LOW"

loopSentDarkRed ==
  /\ pc = "L126"
  /\ sent
  /\ pc' = "L176"
  /\ digitalWrite(ledRedPin, RedOnSent)
  /\ log' = Append(log, Wrote(ledRedPin, RedOnSent))
  /\ args' = <<ledGreenPin, BLINK_TIMES, LED_DELAY>>
  /\ i' = 0
  /\ NoTime
  /\ UNCHANGED <<bounceTime, env, statics, sensorValue, outcome, sent, counts, nReads,
                 nJumps>>
  /\ UNCHANGED tap

(* Line 134: blinkLed(ledRedPin, BLINK_TIMES, LED_DELAY).                  *)
PinOnNotSent_green == ledGreenPin   \* mutant: the wrong led blinks

PinOnNotSent == ledRedPin

loopNotSent ==
  /\ pc = "L126"
  /\ ~sent
  /\ pc' = "L176"
  /\ args' = <<PinOnNotSent, BLINK_TIMES, LED_DELAY>>
  /\ i' = 0
  /\ NoTime
  /\ UNCHANGED <<bounceTime, led, env, statics, sensorValue, outcome, sent, counts,
                 log, nReads, nJumps>>
  /\ UNCHANGED tap

----------------------------------------------------------------------------
(* blinkLed(ledPin, times, time), lines 173-185.                           *)

(* Mutant: i <= times in line 176.                                         *)
blinkLedLight_oneMore ==
  /\ pc = "L176"
  /\ i <= args[2]
  /\ pc' = "L182"
  /\ digitalWrite(args[1], "HIGH")
  /\ log' = Append(log, Wrote(args[1], "HIGH"))
  /\ delay(args[3])
  /\ UNCHANGED <<bounceTime, env, statics, locals, counts, nReads, nJumps>>
  /\ UNCHANGED tap

(* Lines 178-179: digitalWrite(ledPin, HIGH); delay(time).                 *)
blinkLedLight ==
  /\ pc = "L176"
  /\ i < args[2]
  /\ pc' = "L182"
  /\ digitalWrite(args[1], "HIGH")
  /\ log' = Append(log, Wrote(args[1], "HIGH"))
  /\ delay(args[3])
  /\ UNCHANGED <<bounceTime, env, statics, locals, counts, nReads, nJumps>>
  /\ UNCHANGED tap

(* Lines 182-183: digitalWrite(ledPin, LOW); delay(time); i++.             *)
blinkLedDark ==
  /\ pc = "L182"
  /\ pc' = "L176"
  /\ digitalWrite(args[1], "LOW")
  /\ log' = Append(log, Wrote(args[1], "LOW"))
  /\ delay(args[3])
  /\ i' = i + 1
  /\ UNCHANGED <<bounceTime, env, statics, args, sensorValue, outcome, sent, counts,
                 nReads, nJumps>>
  /\ UNCHANGED tap

(* Mutant: the loop of line 176 left on i > times only.                    *)
blinkLedReturn_offByOne ==
  /\ pc = "L176"
  /\ i > args[2]
  /\ pc' = "L138"
  /\ i' = 0
  /\ args' = NoArgs
  /\ NoTime
  /\ UNCHANGED <<bounceTime, led, env, statics, sensorValue, outcome, sent, counts,
                 log, nReads, nJumps>>
  /\ UNCHANGED tap

(* Line 176, i >= times: blinkLed returns to line 138.                     *)
blinkLedReturn ==
  /\ pc = "L176"
  /\ i >= args[2]
  /\ pc' = "L138"
  /\ i' = 0
  /\ args' = NoArgs
  /\ NoTime
  /\ UNCHANGED <<bounceTime, led, env, statics, sensorValue, outcome, sent, counts,
                 log, nReads, nJumps>>
  /\ UNCHANGED tap

----------------------------------------------------------------------------
(* Line 138: bounceTime = millis(); the iteration ends.                    *)
BounceTimeAfterCycle_atPress == ULongToLong(pressTime)   \* mutant: the press time

BounceTimeAfterCycle == ULongToLong(millis)

loopSetBounceTime ==
  /\ pc = "L138"
  /\ pc' = "L111"
  /\ bounceTime' = BounceTimeAfterCycle
  /\ sinceWrite' = 0
  /\ log' = Append(log, <<"bounceTime", millis>>)
  /\ outcome' = NoOutcome
  /\ sent' = FALSE
  /\ UNCHANGED <<now, sinceAccept, led, env, statics, i, args, sensorValue, counts,
                 nReads, nJumps>>
  /\ UNCHANGED tap

----------------------------------------------------------------------------
Next ==
  \/ Press \/ Release \/ SensorChange \/ GrantLease
  \/ setup \/ dhcpBlocked \/ dhcpBegin
  \/ loopMaintain \/ loopDarkRed \/ loopDarkGreen \/ loopReadButton
  \/ loopGateAccept \/ loopGateReject \/ loopLightRed
  \/ getSensorValueEnter \/ getSensorValueSample \/ getSensorValueReturn
  \/ buildTwitterMsg
  \/ sendTwitterMsgPost \/ sendTwitterMsgWait
  \/ loopSentDarkRed \/ loopNotSent
  \/ blinkLedLight \/ blinkLedDark \/ blinkLedReturn
  \/ loopSetBounceTime

Spec == Init /\ [][Next]_vars

(* The steps of the sketch itself: the processor runs setup() and then     *)
(* loop() again and again, every library call returns, and only            *)
(* EthernetDHCP.begin waits for something the environment may withhold.    *)
Sketch ==
  \/ setup \/ dhcpBegin
  \/ loopMaintain \/ loopDarkRed \/ loopDarkGreen \/ loopReadButton
  \/ loopGateAccept \/ loopGateReject \/ loopLightRed
  \/ getSensorValueEnter \/ getSensorValueSample \/ getSensorValueReturn
  \/ buildTwitterMsg
  \/ sendTwitterMsgPost \/ sendTwitterMsgWait
  \/ loopSentDarkRed \/ loopNotSent
  \/ blinkLedLight \/ blinkLedDark \/ blinkLedReturn
  \/ loopSetBounceTime

(* The running sketch: the environment presses and releases the button,   *)
(* grants the lease or lets time pass without; the level on the sensor pin *)
(* stays what it is (it decides no branch).                                *)
NextRunning ==
  \/ Press \/ Release \/ GrantLease \/ dhcpBlocked
  \/ Sketch

SpecRunning == Init /\ [][NextRunning]_vars /\ WF_vars(Sketch)

(* The sketch with presses that fall within a cycle told apart.            *)
NextBlocking ==
  \/ Press \/ Release \/ BlockedPress \/ BlockedRelease
  \/ GrantLease \/ dhcpBlocked
  \/ Sketch

SpecBlocking == Init /\ [][NextBlocking]_vars

----------------------------------------------------------------------------
(* getSensorValue(pin, N, time) for every N of 1 .. MaxN and for N the     *)
(* SAMPLES_LENGTH of the sketch, on a sensor that drifts from one sample   *)
(* to the next (during the first MaxN samples, then it rests).  A trigger  *)
(* has just been accepted and line 123 has lit the red led: either it is   *)
(* the first trigger, or an                                                *)
(* earlier cycle has left its sum, its last sample and its message behind. *)
SensorDrift ==
  /\ pc = "L197"
  /\ i < MaxN
  /\ sensor' \in AdcLevels \ {sensor}
  /\ UNCHANGED <<pc, now, bounceTime, led, button, lease, statics, locals, counts,
                 log, nReads, nJumps, sinceWrite, sinceAccept, pressCycles>>
  /\ UNCHANGED tap

InitAverage ==
  /\ pc = "L194"
  /\ now = U32(BOUNCE_DURATION + 1)
  /\ bounceTime = 0
  /\ led = [p \in LedPins |-> IF p = ledRedPin THEN "HIGH" ELSE "LOW"]
  /\ button = "HIGH"
  /\ sensor \in AdcLevels
  /\ lease = TRUE
  /\ i = 0
  /\ \E N \in (1..MaxN) \cup {SAMPLES_LENGTH} : args = <<sensorPin, N, SAMPLE_DELAY>>
  /\ \E earlier \in BOOLEAN :
       /\ curSample = IF earlier THEN 1023 ELSE 0
       /\ curValue = IF earlier THEN 1023 * SAMPLES_LENGTH ELSE 0
       /\ twitterMsg = IF earlier THEN sprintf(<<>>, twitterMsgFormat, 1023) ELSE <<>>
  /\ sensorValue = 0
  /\ outcome = NoOutcome
  /\ sent = FALSE
  /\ log = <<Called("maintain"), Wrote(ledRedPin, "LOW"), Wrote(ledGreenPin, "LOW"),
             <<"digitalRead", buttonPin, "HIGH">>, <<"gate", TRUE>>,
             Wrote(ledRedPin, "HIGH")>>
  /\ nReads = 0
  /\ pressTime = now
  /\ nAccepted = 1
  /\ nPosts = 0
  /\ nJumps = 0
  /\ sinceWrite = ClockCap
  /\ sinceAccept = 0
  /\ pressCycles = 1
  /\ tap = "none"

NextAverage ==
  \/ SensorDrift
  \/ getSensorValueEnter \/ getSensorValueSample \/ getSensorValueReturn

SpecAverage == InitAverage /\ [][NextAverage]_vars

----------------------------------------------------------------------------
(* buildTwitterMsg(x, twitterMsgFormat) over the range of a long, and the  *)
(* delivery of what it returns.  The static buffer is fresh, or holds what *)
(* an earlier call wrote, longer or shorter than the message to come.      *)
LONG_MAX == Half * (Half \div 2 - 1) + (Half - 1)

LONG_MIN == -LONG_MAX - 1

LongValues == {0, 7, 10, 1023, -1, -1023, LONG_MAX, LONG_MIN}

InitFormat ==
  /\ pc = "L166"
  /\ now = U32(BOUNCE_DURATION + 1 + SAMPLES_LENGTH * SAMPLE_DELAY)
  /\ bounceTime = 0
  /\ led = [p \in LedPins |-> IF p = ledRedPin THEN "HIGH" ELSE "LOW"]
  /\ button = "HIGH"
  /\ sensor = 7
  /\ lease = TRUE
  /\ i = 0
  /\ args = NoArgs
  /\ curSample = 7
  /\ curValue = 7 * SAMPLES_LENGTH
  /\ sensorValue \in LongValues
  /\ twitterMsg \in {<<>>, sprintf(<<>>, twitterMsgFormat, 7),
                      sprintf(<<>>, twitterMsgFormat, LONG_MIN)}
  /\ outcome = NoOutcome
  /\ sent = FALSE
  /\ log = <<Called("maintain"), Wrote(ledRedPin, "LOW"), Wrote(ledGreenPin, "LOW"),
             <<"digitalRead", buttonPin, "HIGH">>, <<"gate", TRUE>>,
             Wrote(ledRedPin, "HIGH"), Called("getSensorValue")>>
  /\ nReads = SAMPLES_LENGTH
  /\ pressTime = U32(BOUNCE_DURATION + 1)
  /\ nAccepted = 1
  /\ nPosts = 0
  /\ nJumps = 0
  /\ sinceWrite = ClockCap
  /\ sinceAccept = ClockCap
  /\ pressCycles = 1
  /\ tap = "none"

NextFormat == buildTwitterMsg \/ sendTwitterMsgPost \/ sendTwitterMsgWait

SpecFormat == InitFormat /\ [][NextFormat]_vars

----------------------------------------------------------------------------
(* blinkLed(ledPin, times, time) for times of -1 .. MaxTimes, on either    *)
(* led, with a delay of 0, 1 or LED_DELAY ms.  A delivery is over: it      *)
(* succeeded and line 130 has put out the red led, or it failed to connect *)
(* and the red led is lit.                                                 *)
BlinkEntryTime == U32(BOUNCE_DURATION + 1 + SAMPLES_LENGTH * SAMPLE_DELAY)

BlinkEntryLog(delivered) ==
  <<Called("maintain"), Wrote(ledRedPin, "LOW"), Wrote(ledGreenPin, "LOW"),
    <<"digitalRead", buttonPin, "HIGH">>, <<"gate", TRUE>>,
    Wrote(ledRedPin, "HIGH"), Called("getSensorValue")>>
  \o [k \in 1..SAMPLES_LENGTH |-> <<"analogRead", sensorPin, 7>>]
  \o <<Called("buildTwitterMsg"),
        <<"post", CString(sprintf(<<>>, twitterMsgFormat, 7), 1)>>>>
  \o (IF delivered THEN <<Called("wait"), Wrote(ledRedPin, "LOW")>> ELSE <<>>)

InitBlink ==
  /\ pc = "L176"
  /\ now = BlinkEntryTime
  /\ bounceTime = 0
  /\ sent \in BOOLEAN
  /\ led = [p \in LedPins |-> IF p = ledRedPin /\ ~sent THEN "HIGH" ELSE "LOW"]
  /\ button \in Levels
  /\ sensor = 7
  /\ lease = TRUE
  /\ i = 0
  /\ \E times \in -1..MaxTimes, time \in {0, 1, LED_DELAY} :
       args = <<IF sent THEN ledGreenPin ELSE ledRedPin, times, time>>
  /\ curSample = 7
  /\ curValue = 7 * SAMPLES_LENGTH
  /\ sensorValue = 0
  /\ twitterMsg = sprintf(<<>>, twitterMsgFormat, 7)
  /\ outcome = IF sent THEN <<"Sent", HTTP_OK>> ELSE <<"ConnectionFailed", 0>>
  /\ log = BlinkEntryLog(sent)
  /\ nReads = SAMPLES_LENGTH
  /\ pressTime = U32(BOUNCE_DURATION + 1)
  /\ nAccepted = 1
  /\ nPosts = 1
  /\ nJumps = 0
  /\ sinceWrite = ClockCap
  /\ sinceAccept = ClockCap
  /\ pressCycles = IF button = "HIGH" THEN 1 ELSE 0
  /\ tap = "none"

NextBlink == blinkLedLight \/ blinkLedDark \/ blinkLedReturn

SpecBlink == InitBlink /\ [][NextBlink]_vars

----------------------------------------------------------------------------
(* The debounce gate over the range of the timer.  The sketch is idle, a   *)
(* cycle is behind it: line 138 stored one of GateTimes in bounceTime, and *)
(* the timer now reads one of GateTimes.                                   *)
GateTimes ==
  { Zero32, U32(1), U32(BOUNCE_DURATION), U32(BOUNCE_DURATION + 1),
    <<Half \div 2 - 1, Half - 1>>, <<Half \div 2, 0>>,
    <<Half \div 2, BOUNCE_DURATION>>, <<Half \div 2, BOUNCE_DURATION + 1>>,
    <<Half - 1, Half - BOUNCE_DURATION - 1>>, <<Half - 1, Half - BOUNCE_DURATION>>,
    <<Half - 1, Half - 1>> }

InitGate ==
  /\ pc = "L111"
  /\ now \in GateTimes
  /\ bounceTime \in {ULongToLong(t) : t \in GateTimes}
  /\ led = [p \in LedPins |-> "LOW"]
  /\ button \in Levels
  /\ sensor = 7
  /\ lease = TRUE
  /\ i = 0
  /\ args = NoArgs
  /\ curSample = 7
  /\ curValue = 7 * SAMPLES_LENGTH
  /\ sensorValue = 0
  /\ twitterMsg = sprintf(<<>>, twitterMsgFormat, 7)
  /\ outcome = NoOutcome
  /\ sent = FALSE
  /\ log = <<Called("maintain"), Wrote(ledRedPin, "LOW"), Wrote(ledGreenPin, "LOW"),
             <<"digitalRead", buttonPin, "LOW">>>>
  /\ nReads = 0
  /\ pressTime = Sub32(LongToULong(bounceTime),
                       U32(SAMPLES_LENGTH * SAMPLE_DELAY + 2 * BLINK_TIMES * LED_DELAY))
  /\ nAccepted = 1
  /\ nPosts = 1
  /\ nJumps = 0
  /\ sinceWrite =
       IF \E e \in 0..BOUNCE_DURATION : Add32(LongToULong(bounceTime), U32(e)) = now
       THEN CHOOSE e \in 0..BOUNCE_DURATION : Add32(LongToULong(bounceTime), U32(e)) = now
       ELSE ClockCap
  /\ sinceAccept = ClockCap
  /\ pressCycles = 0
  /\ tap = "none"

NextGate ==
  \/ Press \/ Release
  \/ loopMaintain \/ loopDarkRed \/ loopDarkGreen \/ loopReadButton
  \/ loopGateAccept \/ loopGateReject

SpecGate == InitGate /\ [][NextGate]_vars

----------------------------------------------------------------------------
(* Reading the history of an iteration.                                    *)
IsWrite(e, pin, level) == e[1] = "digitalWrite" /\ e[2] = pin /\ e[3] = level
IsCall(e, name) == e[1] = "call" /\ e[2] = name
IsPost(e) == e[1] = "post"

LedWrites(l) == SelectSeq(l, LAMBDA e : e[1] = "digitalWrite")

(* The names of the calls made, in order.                                  *)
CallNames(l) ==
  LET c == SelectSeq(l, LAMBDA e : e[1] \in {"call", "post"})
  IN  [k \in 1..Len(c) |-> IF IsPost(c[k]) THEN "post" ELSE c[k][2]]

(* times alternations HIGH, LOW on pin.                                    *)
Blinks(pin, times) ==
  [k \in 1..(2 * times) |-> Wrote(pin, IF k % 2 = 1 THEN "HIGH" ELSE "LOW")]

(* Where the twitter.post call stands in the history (0: not made).        *)
PostAt(l) ==
  IF \E k \in 1..Len(l) : IsPost(l[k])
  THEN CHOOSE k \in 1..Len(l) : IsPost(l[k]) /\ \A j \in 1..(k - 1) : ~IsPost(l[j])
  ELSE 0

(* Positions of the sketch.                                                *)
BeforePost == {"L123", "L194", "L197", "L166", "L222"}
AfterDelivery == {"L126", "L176", "L182", "L138"}
Blinking == {"L176", "L182"}

(* Time the delays of one cycle take: 30 samples and 10 blinks.            *)
MinCycleTime == SAMPLES_LENGTH * SAMPLE_DELAY + 2 * BLINK_TIMES * LED_DELAY

(* The 32-bit difference millis() - bounceTime exceeds k.                  *)
ModDiffExceeds(m, bt, k) == Gt32(Sub32(m, LongToULong(bt)), U32(k))

(* |m - bt| > k over the integers, m an unsigned long and bt a long, for   *)
(* k < 2^16: the difference is dh * 2^16 + dl with 0 <= dl < 2^16.         *)
AbsDiffExceeds(m, bt, k) ==
  LET b == LongToULong(bt)
      bh == IF bt < 0 THEN b[1] - Half ELSE b[1]
      lo == m[2] - b[2]
      dl == IF lo < 0 THEN lo + Half ELSE lo
      dh == (m[1] - bh) - (IF lo < 0 THEN 1 ELSE 0)
  IN  \/ dh > 0
      \/ dh = 0 /\ dl > k
      \/ dh < -1
      \/ dh = -1 /\ dl < Half - k

----------------------------------------------------------------------------
(* C1.  The green and the red led are never both HIGH, in any state of     *)
(* setup() and loop(); and whenever HIGH has just been written to the      *)
(* green led, a LOW was written to the red led before it, with no HIGH     *)
(* written to the red led in between.                                      *)
C1_MutualExclusion ==
  /\ ~(led[ledGreenPin] = "HIGH" /\ led[ledRedPin] = "HIGH")
  /\ (Len(log) > 0 /\ IsWrite(log[Len(log)], ledGreenPin, "HIGH")) =>
       \E k \in 1..(Len(log) - 1) :
         /\ IsWrite(log[k], ledRedPin, "LOW")
         /\ \A n \in (k + 1)..(Len(log) - 1) : ~IsWrite(log[n], ledRedPin, "HIGH")

(* A successful delivery is blinking the green led.                        *)
C1_Witness == led[ledGreenPin] = "HIGH" /\ sent /\ pc = "L182"

(* C2.  Whenever the gate accepts, more than BOUNCE_DURATION has passed    *)
(* since bounceTime was stored, and more than BOUNCE_DURATION has passed   *)
(* since the previous accepted trigger: of two polls no more than          *)
(* BOUNCE_DURATION apart at most one is accepted.                          *)
C2_DebounceSpacing ==
  [][loopGateAccept =>
       /\ sinceWrite > BOUNCE_DURATION
       /\ nAccepted >= 1 => sinceAccept > BOUNCE_DURATION]_vars

(* A second trigger has been accepted.                                     *)
C2_Witness == pc = "L123" /\ nAccepted >= 2

(* C3, as claimed.  While the button stays HIGH at most one cycle starts.  *)
C3_OneCyclePerPress == pressCycles <= 1

(* C3, amended.  While the button stays HIGH a further cycle starts only   *)
(* when more than BOUNCE_DURATION has passed since the previous cycle      *)
(* ended (since bounceTime was stored); a press held longer starts more    *)
(* than one cycle.                                                         *)
C3_HeldButtonRetriggers ==
  (pc = "L123" /\ pressCycles >= 2) => sinceWrite > BOUNCE_DURATION

(* A second cycle has started during one press.                            *)
C3_Witness == pc = "L123" /\ pressCycles >= 2 /\ button = "HIGH"

(* C4, as claimed.  With the button read HIGH a cycle starts if and only   *)
(* if |now - bounceTime| > BOUNCE_DURATION, the difference of the two      *)
(* values taken over the integers.                                         *)
C4_GateDecisionAbs ==
  [][(pc = "L120" /\ pc' # "L120") =>
       (pc' = "L123" <=> AbsDiffExceeds(now, bounceTime, BOUNCE_DURATION))]_vars

(* C4, amended.  With the button read HIGH a cycle starts if and only if   *)
(* the 32-bit difference (now - bounceTime) mod 2^32 exceeds               *)
(* BOUNCE_DURATION, strictly; this is |now - bounceTime| as long as        *)
(* bounceTime is not negative and not ahead of the timer; with the button  *)
(* read LOW no cycle starts.                                               *)
C4_GateDecision ==
  [][/\ (pc = "L120" /\ pc' # "L120") =>
          /\ pc' = "L123" <=> ModDiffExceeds(now, bounceTime, BOUNCE_DURATION)
          /\ pc' \in {"L123", "L111"}
          /\ (bounceTime >= 0 /\ ~Gt32(LongToULong(bounceTime), now)) =>
               (pc' = "L123" <=> AbsDiffExceeds(now, bounceTime, BOUNCE_DURATION))
     /\ (pc = "L118" /\ pc' # "L118" /\ button = "LOW") =>
          /\ pc' = "L111"
          /\ nAccepted' = nAccepted]_vars

(* The gate is asked with a difference of exactly BOUNCE_DURATION.         *)
C4_Witness ==
  /\ pc = "L120"
  /\ Sub32(now, LongToULong(bounceTime)) = U32(BOUNCE_DURATION)
  /\ nAccepted >= 1

(* C5.  Every accepted trigger makes one averaging pass of SAMPLES_LENGTH  *)
(* reads, then one buildTwitterMsg, then one twitter.post, then at most    *)
(* one twitter.wait (none when the connection failed); the posts made are  *)
(* as many as the accepted triggers whose cycle has reached the post.      *)
C5_NoRetry ==
  /\ nPosts = nAccepted - (IF pc \in BeforePost THEN 1 ELSE 0)
  /\ pc \in AfterDelivery =>
       /\ nReads = SAMPLES_LENGTH
       /\ CallNames(log) =
            <<"maintain", "getSensorValue", "buildTwitterMsg", "post">>
            \o (IF outcome[1] = "ConnectionFailed" THEN <<>> ELSE <<"wait">>)
  /\ pc = "L224" =>
       CallNames(log) = <<"maintain", "getSensorValue", "buildTwitterMsg", "post">>
  /\ pc \in BeforePost =>
       CallNames(log) = SubSeq(<<"maintain", "getSensorValue", "buildTwitterMsg">>,
                               1, Len(CallNames(log)))
  /\ (pc \in {"L111", "L114", "L115", "L118", "L120"} /\ Len(log) > 0) =>
       (log[Len(log)][1] # "bounceTime" => CallNames(log) = <<"maintain">>)

(* The second accepted trigger has failed to connect and is over.          *)
C5_Witness == pc = "L138" /\ nPosts = 2 /\ outcome[1] = "ConnectionFailed"

(* C6.  sendTwitterMsg returns true exactly when the post connected and    *)
(* wait answered 200; wait is not called when the connection failed; and   *)
(* an iteration that ends in a rejection or in a connection failure has    *)
(* made the same writes to the leds.                                       *)
C6_FailureWrites ==
  <<Wrote(ledRedPin, "LOW"), Wrote(ledGreenPin, "LOW"), Wrote(ledRedPin, "HIGH")>>
  \o Blinks(ledRedPin, BLINK_TIMES)

C6_DeliveryOutcome ==
  /\ pc \in AfterDelivery =>
       /\ outcome[1] \in {"Sent", "Rejected", "ConnectionFailed"}
       /\ sent <=> outcome[1] = "Sent"
       /\ outcome[1] = "Sent" <=> outcome[2] = HTTP_OK
       /\ outcome[1] = "ConnectionFailed" <=>
            \A k \in 1..Len(log) : ~IsCall(log[k], "wait")
  /\ (pc = "L138" /\ outcome[1] # "Sent") => LedWrites(log) = C6_FailureWrites

(* A delivery rejected with status 503 has been indicated.                 *)
C6_Witness == pc = "L138" /\ outcome = <<"Rejected", 503>>

(* C7.  After a successful delivery the red led is written LOW, stays LOW  *)
(* and the green led makes BLINK_TIMES alternations HIGH, LOW; after a     *)
(* failed one the red led makes BLINK_TIMES alternations HIGH, LOW and the *)
(* green led is never written HIGH in the iteration.                       *)
C7_Indicating ==
  /\ (pc \in Blinking /\ sent) => led[ledRedPin] = "LOW"
  /\ (pc \in Blinking /\ ~sent) => led[ledGreenPin] = "LOW"
  /\ pc = "L138" =>
       LET after == LedWrites(SubSeq(log, PostAt(log) + 1, Len(log)))
       IN  /\ PostAt(log) > 0
           /\ sent => after = <<Wrote(ledRedPin, "LOW")>> \o Blinks(ledGreenPin, BLINK_TIMES)
           /\ ~sent =>
                /\ after = Blinks(ledRedPin, BLINK_TIMES)
                /\ \A k \in 1..Len(log) : ~IsWrite(log[k], ledGreenPin, "HIGH")

(* A successful delivery has been indicated; a failed one as well.         *)
C7_Witness == pc = "L138" /\ sent /\ nAccepted = 2

(* C8, as claimed.  The red led is written HIGH only after the message has *)
(* been formatted.                                                         *)
C8_BusyLitOnDelivering ==
  \A j \in 1..Len(log) :
    IsWrite(log[j], ledRedPin, "HIGH") =>
      \E k \in 1..(j - 1) : IsCall(log[k], "buildTwitterMsg")

(* C8, amended.  An accepted trigger goes through sampling, formatting,    *)
(* delivering and indicating in this order, and the red led is written     *)
(* HIGH on acceptance, before sampling: it is lit during the whole of      *)
(* sampling, formatting and delivering.                                    *)
C8_StateOrder ==
  /\ pc \in {"L194", "L197", "L166", "L222", "L224", "L126"} =>
       /\ led[ledRedPin] = "HIGH"
       /\ led[ledGreenPin] = "LOW"
  /\ pc \in AfterDelivery =>
       SelectSeq(SubSeq(log, 1, PostAt(log)),
                 LAMBDA e : IsWrite(e, ledRedPin, "HIGH") \/ e[1] \in {"call", "post", "gate"})
       = << Called("maintain"), <<"gate", TRUE>>, Wrote(ledRedPin, "HIGH"),
            Called("getSensorValue"), Called("buildTwitterMsg"), log[PostAt(log)] >>

(* The sketch is sampling with the red led lit.                            *)
C8_Witness == pc = "L197" /\ i > 0 /\ i < SAMPLES_LENGTH /\ led[ledRedPin] = "HIGH"

(* C9.  An iteration that ends because the button read LOW or the gate     *)
(* rejected has read no sample, called nothing but maintain, written no    *)
(* HIGH and left both leds LOW and bounceTime as it was; bounceTime        *)
(* changes only in the last step of an accepted trigger's cycle.           *)
C9_NoSideEffectsOnReject ==
  [][/\ (pc \in {"L118", "L120"} /\ pc' = "L111") =>
          /\ UNCHANGED <<bounceTime, led, curSample, curValue, twitterMsg, nPosts,
                         nAccepted, nReads>>
          /\ nReads = 0
          /\ \A p \in LedPins : led[p] = "LOW"
          /\ CallNames(log') = <<"maintain">>
          /\ \A k \in 1..Len(log') : \A p \in LedPins : ~IsWrite(log'[k], p, "HIGH")
     /\ bounceTime' # bounceTime =>
          /\ pc = "L138" /\ pc' = "L111"
          /\ PostAt(log) > 0]_vars

(* The gate has just rejected a press, after an earlier accepted trigger.  *)
C9_Witness ==
  /\ pc = "L111"
  /\ Len(log) > 0
  /\ log[Len(log)] = <<"gate", FALSE>>
  /\ nAccepted >= 1

(* C10, as claimed.  After an accepted trigger bounceTime is the timer     *)
(* reading the gate compared when it accepted.                             *)
C10_BounceTimeIsPressTime ==
  (pc = "L111" /\ nAccepted >= 1) => bounceTime = ULongToLong(pressTime)

(* C10, amended.  After an accepted trigger bounceTime is the timer        *)
(* reading taken at line 138, when the cycle is over: at least             *)
(* MinCycleTime later than the reading the gate compared.                  *)
C10_BounceTimeAfterCycle ==
  (pc = "L111" /\ Len(log) > 0 /\ log[Len(log)][1] = "bounceTime") =>
    /\ bounceTime = ULongToLong(now)
    /\ log[Len(log)][2] = now
    /\ ~Gt32(U32(MinCycleTime), Sub32(now, pressTime))

(* A cycle has just ended.                                                 *)
C10_Witness ==
  pc = "L111" /\ Len(log) > 0 /\ log[Len(log)][1] = "bounceTime" /\ nAccepted >= 1

(* The reading m is at most k ms past the reading t, modulo 2^32.          *)
Within(m, t, k) == \E e \in 0..k : Add32(t, U32(e)) = m

(* C11.  The gate tolerates the wrap of the timer: whatever reading t line *)
(* 138 stored in bounceTime (those of 2^31 and more are stored negative)   *)
(* and whatever the timer reads now (behind t after a wrap), the gate      *)
(* rejects if and only if now is t + e modulo 2^32 for some e of at most   *)
(* BOUNCE_DURATION, and accepts otherwise; and it accepts no press made    *)
(* BOUNCE_DURATION or less after bounceTime was stored.                    *)
C11_GateToleratesWrap ==
  [][(pc = "L120" /\ pc' # "L120") =>
       /\ \A t \in GateTimes :
            bounceTime = ULongToLong(t) =>
              (pc' = "L123" <=> ~Within(now, t, BOUNCE_DURATION))
       /\ \E t \in GateTimes : bounceTime = ULongToLong(t)
       /\ sinceWrite <= BOUNCE_DURATION => pc' = "L111"]_vars

(* After a wrap: the stored reading is 2^32 - BOUNCE_DURATION, stored as a *)
(* negative long, the timer reads 1 and the gate has accepted.             *)
C11_Witness ==
  /\ pc = "L123"
  /\ bounceTime = -BOUNCE_DURATION
  /\ now = U32(1)

(* The samples analogRead returned in the iteration, in order.             *)
ReadsOf(l) ==
  LET r == SelectSeq(l, LAMBDA e : e[1] = "analogRead")
  IN  [k \in 1..Len(r) |-> r[k][3]]

RECURSIVE SumOf(_)
SumOf(v) == IF v = <<>> THEN 0 ELSE v[1] + SumOf(Tail(v))

(* C12.  getSensorValue(pin, N, time), N >= 1, reads exactly N samples and *)
(* returns the sum of these N samples divided by N, the quotient truncated *)
(* (the sample itself when N is 1), whatever sum and sample an earlier     *)
(* call left in its static variables.                                      *)
C12_Averaging ==
  [][(pc = "L197" /\ pc' = "L166") =>
       LET v == ReadsOf(log)
           N == args[2]
       IN  /\ N >= 1
           /\ Len(v) = N
           /\ nReads = N
           /\ \A k \in 1..N : v[k] \in 0..1023
           /\ sensorValue' * N <= SumOf(v)
           /\ SumOf(v) < (sensorValue' + 1) * N
           /\ N = 1 => sensorValue' = v[1]]_vars

(* An earlier cycle left 30690 in curValue; the samples 7 and 100 have     *)
(* been read and 53 is returned.                                           *)
C12_Witness ==
  /\ pc = "L166"
  /\ twitterMsg # <<>>
  /\ ReadsOf(log) = <<7, 100>>
  /\ sensorValue = 53

(* setup() has returned.                                                   *)
InLoop == pc \notin {"setup", "L84"}

(* C13.  Every iteration of loop() calls EthernetDHCP.maintain() exactly   *)
(* once, first of all, whether the button then reads LOW, the gate rejects *)
(* or a cycle runs; the button is read once per iteration, after maintain  *)
(* and after LOW has been written to both leds, and both leds are LOW      *)
(* whenever it is read.                                                    *)
C13_IdleHousekeeping ==
  /\ (InLoop /\ (pc # "L111" \/ log # <<>>)) =>
       /\ Len(log) >= 1
       /\ log[1] = Called("maintain")
       /\ \A k \in 2..Len(log) : ~IsCall(log[k], "maintain")
  /\ pc = "L118" =>
       /\ \A p \in LedPins : led[p] = "LOW"
       /\ log = <<Called("maintain"), Wrote(ledRedPin, "LOW"), Wrote(ledGreenPin, "LOW")>>
  /\ \A k \in 1..Len(log) : log[k][1] = "digitalRead" => k = 4
  /\ (InLoop /\ pc \notin {"L111", "L114", "L115", "L118"}) =>
       (Len(log) >= 4 /\ log[4][1] = "digitalRead")
  /\ ~InLoop => log = <<>>

(* After a cycle, an iteration has polled the button, read LOW and ended.  *)
C13_Witness ==
  /\ pc = "L111"
  /\ nAccepted >= 1
  /\ Len(log) = 4
  /\ log[4] = <<"digitalRead", buttonPin, "LOW">>

(* The button is about to be read, with both leds LOW.                    *)
Polling == pc = "L118" /\ \A p \in LedPins : led[p] = "LOW"

ExplorationEnds == pc = "L120" /\ nAccepted = MaxCycles /\ GateAccepts(millis, bounceTime)

(* C14.  Every state of an accepted trigger's cycle, from the acceptance   *)
(* to line 138, with the delivery still to come, succeeded or failed, is   *)
(* followed by a poll of the button with both leds LOW; and in no state of *)
(* loop() is the sketch without a next step (the one state left out is     *)
(* where the exploration stops: the gate about to accept a trigger beyond  *)
(* MaxCycles).                                                             *)
C14_ReturnsToIdle ==
  /\ [](InLoop /\ ~ExplorationEnds => ENABLED Sketch)
  /\ (pc \in BeforePost \cup {"L224"} \cup AfterDelivery) ~> Polling

(* The button is polled again after a cycle whose delivery failed and a    *)
(* cycle whose delivery succeeded.                                         *)
C14_Witness == Polling /\ nAccepted >= 2 /\ nPosts = nAccepted /\ curValue > 0

(* The led writes of an iteration with a cycle, by the delivery outcome.   *)
C15_CycleWrites ==
  <<Wrote(ledRedPin, "LOW"), Wrote(ledGreenPin, "LOW"), Wrote(ledRedPin, "HIGH")>>
  \o (IF sent THEN <<Wrote(ledRedPin, "LOW")>> \o Blinks(ledGreenPin, BLINK_TIMES)
      ELSE Blinks(ledRedPin, BLINK_TIMES))

(* C15.  A press that begins and ends within one cycle changes nothing but *)
(* the level of the button pin: not the position of the sketch, not        *)
(* bounceTime, not the leds, not what the cycle goes on to call and write; *)
(* the cycle ends as it would have, and the poll that follows, reading     *)
(* LOW, starts no cycle.  A cycle makes its post before the next trigger   *)
(* is accepted, so at most one delivery is in progress.                    *)
C15_BlockedPressesUnseen ==
  [][/\ (pc \in Busy /\ button' # button) =>
          UNCHANGED <<pc, now, bounceTime, led, statics, locals, counts, log, nReads>>
     /\ (tap = "done" /\ pc = "L138" /\ pc' # pc) =>
          /\ LedWrites(log) = C15_CycleWrites
          /\ nReads = SAMPLES_LENGTH
          /\ bounceTime' = ULongToLong(now)
          /\ pc' = "L111"
     /\ (tap = "done" /\ pc = "L118" /\ pc' # pc /\ button = "LOW") =>
          /\ pc' = "L111"
          /\ UNCHANGED <<bounceTime, led, nAccepted, nPosts>>
     /\ nPosts <= nAccepted /\ nAccepted <= nPosts + 1
     /\ Len(SelectSeq(log, IsPost)) <= 1]_vars

(* A press began and ended while the leds were blinking; the cycle is      *)
(* over, the button has been polled and read LOW, and the iteration has    *)
(* ended without a cycle.                                                  *)
C15_Witness ==
  /\ tap = "done"
  /\ pc = "L111"
  /\ Len(log) = 4
  /\ log[4] = <<"digitalRead", buttonPin, "LOW">>
  /\ button = "LOW"

(* C16.  loop() runs only with the lease granted: as long as it is not,    *)
(* the sketch is in setup(), at line 84 at the latest, whatever time       *)
(* passes and whatever the button does, and it has polled no button, read  *)
(* no sample, posted nothing, written nothing to a led (both are LOW) and  *)
(* accepted no trigger.                                                    *)
C16_StartupOrdering ==
  /\ InLoop => lease
  /\ ~lease =>
       /\ pc \in {"setup", "L84"}
       /\ log = <<>>
       /\ nReads = 0
       /\ nPosts = 0
       /\ nAccepted = 0
       /\ bounceTime = 0
       /\ \A p \in LedPins : led[p] = "LOW"

(* EthernetDHCP.begin has been blocking for a while, the button is down.   *)
C16_Witness == pc = "L84" /\ ~lease /\ nJumps >= 2 /\ button = "HIGH"

(* The template around its placeholder, and the reading of a rendering.   *)
PlaceholderAt == CHOOSE k \in 1..Len(twitterMsgFormat) : twitterMsgFormat[k] = "%"

TemplateHead == SubSeq(twitterMsgFormat, 1, PlaceholderAt - 1)

TemplateTail == CString(twitterMsgFormat, PlaceholderAt + 3)

DigitValue(c) == CHOOSE d \in 0..9 : Digit[d + 1] = c

(* Minus the number the digits ds read as.                                 *)
RECURSIVE NegValueOf(_)
NegValueOf(ds) ==
  IF ds = <<>> THEN 0
  ELSE NegValueOf(SubSeq(ds, 1, Len(ds) - 1)) * 10 - DigitValue(ds[Len(ds)])

Renders(r, x) ==
  LET ds == IF x < 0 THEN Tail(r) ELSE r
  IN  /\ Len(r) >= 1
      /\ x < 0 => r[1] = "-"
      /\ Len(ds) >= 1
      /\ \A k \in 1..Len(ds) : \E d \in 0..9 : ds[k] = Digit[d + 1]
      /\ Len(ds) > 1 => ds[1] # "0"
      /\ NegValueOf(ds) = (IF x < 0 THEN x ELSE -x)

(* C17.  For every long x, buildTwitterMsg(x, twitterMsgFormat) leaves in  *)
(* the buffer a text that ends in a null character within the 256 bytes    *)
(* and reads: the template up to its placeholder, then a '-' if x is       *)
(* negative, then decimal digits without a leading zero whose value is the *)
(* magnitude of x, then the rest of the template; twitter.post is given    *)
(* this text.                                                              *)
C17_MessageFormat ==
  [][/\ (pc = "L166" /\ pc' = "L222") =>
          LET text == CString(twitterMsg', 1)
              h == Len(TemplateHead)
              t == Len(TemplateTail)
          IN  /\ Len(text) + 1 <= TWITTER_MSG_LENGTH
              /\ Len(twitterMsg') <= TWITTER_MSG_LENGTH
              /\ twitterMsg'[Len(text) + 1] = "NUL"
              /\ Len(text) > h + t
              /\ SubSeq(text, 1, h) = TemplateHead
              /\ SubSeq(text, Len(text) - t + 1, Len(text)) = TemplateTail
              /\ Renders(SubSeq(text, h + 1, Len(text) - t), sensorValue)
     /\ (pc = "L222" /\ pc' # pc) =>
          /\ log'[Len(log')] = <<"post", CString(twitterMsg, 1)>>
          /\ twitterMsg' = twitterMsg]_vars

(* The message for -2^31 has been posted.                                  *)
C17_Witness ==
  /\ pc = "L224"
  /\ log[Len(log)] =
       <<"post", TemplateHead
                 \o <<"-", "2", "1", "4", "7", "4", "8", "3", "6", "4", "8">>
                 \o TemplateTail>>

(* C18.  blinkLed(pin, times, period) writes HIGH, LOW, HIGH, LOW, ... to  *)
(* pin, `times` of each, and to no other pin; after every write it waits   *)
(* period ms, so 2 * times * period ms have passed when it returns; it     *)
(* returns with pin LOW when times >= 1, and with nothing written and no   *)
(* time passed when times <= 0.                                            *)
C18_BlinkLed ==
  [][(pc \in Blinking) =>
       LET entry == BlinkEntryLog(sent)
           w == SubSeq(log, Len(entry) + 1, Len(log))
           pin == args[1]
           times == IF args[2] > 0 THEN args[2] ELSE 0
       IN  /\ SubSeq(log, 1, Len(entry)) = entry
           /\ Len(w) = 2 * i + (IF pc = "L182" THEN 1 ELSE 0)
           /\ Len(w) <= 2 * times
           /\ w = SubSeq(Blinks(pin, times), 1, Len(w))
           /\ Sub32(now, BlinkEntryTime) = U32(Len(w) * args[3])
           /\ \A p \in LedPins \ {pin} : led[p] = "LOW"
           /\ Len(w) > 0 => led[pin] = w[Len(w)][3]
           /\ pc' = "L138" =>
                /\ Len(w) = 2 * times
                /\ UNCHANGED <<led, log, now>>
                /\ args[2] >= 1 => led[pin] = "LOW"
                /\ args[2] <= 0 => (log = entry /\ now = BlinkEntryTime)]_vars

(* blinkLed(ledRedPin, 2, LED_DELAY) has returned.                         *)
C18_Witness ==
  /\ pc = "L138"
  /\ ~sent
  /\ now = Add32(BlinkEntryTime, U32(4 * LED_DELAY))
  /\ Len(log) = Len(BlinkEntryLog(FALSE)) + 4

(* C19.  What a cycle posts and writes to the leds is a function of the    *)
(* samples it read and of whether its delivery succeeded, whatever the     *)
(* cycles before it sampled, posted and were answered: the sum holds the   *)
(* samples of this cycle only, the text posted is the template filled with *)
(* the average of these samples, with nothing of an earlier message after  *)
(* it, and the writes to the leds are those of C15_CycleWrites.            *)
C19_CycleDependsOnItsInputs ==
  /\ pc = "L197" => curValue = SumOf(ReadsOf(log))
  /\ pc \in {"L224"} \cup AfterDelivery =>
       LET v == ReadsOf(log)
           text == log[PostAt(log)][2]
           h == Len(TemplateHead)
           t == Len(TemplateTail)
       IN  /\ Len(v) = SAMPLES_LENGTH
           /\ Len(text) > h + t
           /\ SubSeq(text, 1, h) = TemplateHead
           /\ SubSeq(text, Len(text) - t + 1, Len(text)) = TemplateTail
           /\ Renders(SubSeq(text, h + 1, Len(text) - t), SumOf(v) \div SAMPLES_LENGTH)
  /\ pc = "L138" => LedWrites(log) = C15_CycleWrites

(* A cycle is over whose message is shorter than that of the cycle before: *)
(* the end of the earlier message is still in the buffer, after the null.  *)
C19_Witness ==
  /\ pc = "L138"
  /\ nAccepted >= 2
  /\ Len(twitterMsg) > Len(CString(twitterMsg, 1)) + 1

====
